---- MODULE Spec2Model ----
(***************************************************************************)
(* Model of server/server.py: the title parser, the time-range resolver,   *)
(* the per-resource scraper, the batch orchestrator, the JSON publisher    *)
(* and the Flask routes that trigger a scrape and serve record.json.       *)
(*                                                                         *)
(* Python strings are sequences of one-character strings, so that split,   *)
(* strip, lower, the regular expression and strptime are computed on the   *)
(* characters as the interpreter computes them.  Datetimes are minutes     *)
(* since midnight of day 0.                                                *)
(***************************************************************************)
EXTENDS Integers, Sequences, FiniteSets, TLC

\* ------------------------------------------------------------------------
\* Characters and strings
\* ------------------------------------------------------------------------

Whitespace == {" ", "\t", "\n"}

DigitChars == <<"0", "1", "2", "3", "4", "5", "6", "7", "8", "9">>

IsDigit(c) == \E i \in 1..Len(DigitChars) : DigitChars[i] = c

DigitVal(c) == (CHOOSE i \in 1..Len(DigitChars) : DigitChars[i] = c) - 1

UpperAlpha ==
  <<"A", "B", "C", "D", "E", "F", "G", "H", "I", "J", "K", "L", "M",
    "N", "O", "P", "Q", "R", "S", "T", "U", "V", "W", "X", "Y", "Z">>

LowerAlpha ==
  <<"a", "b", "c", "d", "e", "f", "g", "h", "i", "j", "k", "l", "m",
    "n", "o", "p", "q", "r", "s", "t", "u", "v", "w", "x", "y", "z">>

\* str.lower(), one character
LowerChar(c) ==
  IF \E i \in 1..Len(UpperAlpha) : UpperAlpha[i] = c
  THEN LowerAlpha[CHOOSE i \in 1..Len(UpperAlpha) : UpperAlpha[i] = c]
  ELSE c

\* str.lower()
Lower(s) == [i \in 1..Len(s) |-> LowerChar(s[i])]

\* str.strip(): leading and trailing whitespace removed
RECURSIVE LStrip(_)
LStrip(s) ==
  IF s # <<>> /\ Head(s) \in Whitespace THEN LStrip(Tail(s)) ELSE s

RECURSIVE RStrip(_)
RStrip(s) ==
  IF s # <<>> /\ s[Len(s)] \in Whitespace
  THEN RStrip(SubSeq(s, 1, Len(s) - 1))
  ELSE s

Strip(s) == RStrip(LStrip(s))

\* s has pat at position i
MatchesAt(s, i, pat) ==
  /\ i + Len(pat) - 1 <= Len(s)
  /\ \A k \in 1..Len(pat) : s[i + k - 1] = pat[k]

\* str.split(sep): leftmost, non-overlapping occurrences of sep
RECURSIVE SplitFrom(_, _, _, _)
SplitFrom(s, sep, i, cur) ==
  IF i > Len(s) THEN <<cur>>
  ELSE IF MatchesAt(s, i, sep)
       THEN <<cur>> \o SplitFrom(s, sep, i + Len(sep), <<>>)
       ELSE SplitFrom(s, sep, i + 1, Append(cur, s[i]))

Split(s, sep) == SplitFrom(s, sep, 1, <<>>)

\* sep.join(parts)
RECURSIVE Join(_, _)
Join(parts, sep) ==
  IF parts = <<>> THEN <<>>
  ELSE IF Len(parts) = 1 THEN parts[1]
  ELSE parts[1] \o sep \o Join(Tail(parts), sep)

\* the literal separator " - "
Sep == <<" ", "-", " ">>

\* the fallback room name "Unknown"
Unknown == <<"U", "n", "k", "n", "o", "w", "n">>

\* ------------------------------------------------------------------------
\* parse_title
\* ------------------------------------------------------------------------

\* [p.strip() for p in ...]
StripAll(raw) == [i \in 1..Len(raw) |-> Strip(raw[i])]

\* parts = [p.strip() for p in title.split(" - ")]
TitleParts(title) == StripAll(Split(title, Sep))

\* HasRoomSegment with the comparison loosened to len(parts) >= 2
HasRoomSegment_Loose(parts) == Len(parts) >= 2

\* HasRoomSegment with the comparison tightened to len(parts) > 3
HasRoomSegment_Strict(parts) == Len(parts) > 3

\* len(parts) > 2: the title carries a room segment
HasRoomSegment(parts) == Len(parts) > 2

\* TitleFields with the slices off by one: room_name = parts[-1] and
\* time_str joined from parts[:-1]
TitleFields_OffByOne(parts) ==
  IF HasRoomSegment(parts)
  THEN [raised |-> "none",
        time_str |-> Join(SubSeq(parts, 1, Len(parts) - 1), Sep),
        status |-> parts[Len(parts)],
        room_name |-> parts[Len(parts)]]
  ELSE [raised |-> "none",
        time_str |-> parts[1],
        status |-> parts[Len(parts)],
        room_name |-> Unknown]

\* status, room_name and time_str from parts; raised is the exception
\* parts[-1] or parts[0] would raise on an empty list
TitleFields(parts) ==
  IF Len(parts) = 0
  THEN [raised |-> "IndexError", time_str |-> <<>>, status |-> <<>>,
        room_name |-> <<>>]
  ELSE IF HasRoomSegment(parts)
  THEN [raised |-> "none",
        time_str |-> Join(SubSeq(parts, 1, Len(parts) - 2), Sep),
        status |-> parts[Len(parts)],
        room_name |-> parts[Len(parts) - 1]]
  ELSE [raised |-> "none",
        time_str |-> parts[1],
        status |-> parts[Len(parts)],
        room_name |-> Unknown]

\* parse_title(title)
parse_title(title) == TitleFields(TitleParts(title))

\* ------------------------------------------------------------------------
\* parse_time_range
\* ------------------------------------------------------------------------

MinutesPerHour == 60

MinutesPerDay == 1440

\* the longest run of whitespace starting at position i (regex \s*)
RECURSIVE SpaceRun(_, _)
SpaceRun(s, i) ==
  IF i <= Len(s) /\ s[i] \in Whitespace THEN 1 + SpaceRun(s, i + 1) ELSE 0

\* \d{d}:\d{2}\s{w}(?:am|pm) matched at position i: the length of the
\* match, 0 when there is none
TokenLenFrom(s, i, d, w) ==
  IF /\ i + d + 2 <= Len(s)
     /\ \A k \in 0..(d - 1) : IsDigit(s[i + k])
     /\ s[i + d] = ":"
     /\ IsDigit(s[i + d + 1]) /\ IsDigit(s[i + d + 2])
     /\ i + d + 3 + w + 1 <= Len(s)
     /\ s[i + d + 3 + w] \in {"a", "p"}
     /\ s[i + d + 3 + w + 1] = "m"
  THEN d + 3 + w + 2
  ELSE 0

\* \d{d}:\d{2}\s*(?:am|pm) matched at position i with d hour digits
TokenLenWith(s, i, d) == TokenLenFrom(s, i, d, SpaceRun(s, i + d + 3))

\* the first alternative that matches
FirstMatch(a, b) == IF a > 0 THEN a ELSE b

\* \d{1,2} is greedy: two hour digits are tried before one
TokenLenAt(s, i) == FirstMatch(TokenLenWith(s, i, 2), TokenLenWith(s, i, 1))

\* re.findall(r"\d{1,2}:\d{2}\s*(?:am|pm)", s): left to right, non-overlapping
RECURSIVE FindAllFrom(_, _)
FindAllNext(s, i, n) ==
  IF n > 0
  THEN <<SubSeq(s, i, i + n - 1)>> \o FindAllFrom(s, i + n)
  ELSE FindAllFrom(s, i + 1)

FindAllFrom(s, i) ==
  IF i > Len(s) THEN <<>> ELSE FindAllNext(s, i, TokenLenAt(s, i))

FindAll(s) == FindAllFrom(s, 1)

\* %I of strptime, (1[0-2]|0[1-9]|[1-9]), taking hl characters of t
HourFieldOK(t, hl) ==
  /\ hl <= Len(t)
  /\ IF hl = 2
     THEN \/ t[1] = "1" /\ t[2] \in {"0", "1", "2"}
          \/ t[1] = "0" /\ IsDigit(t[2]) /\ t[2] # "0"
     ELSE IsDigit(t[1]) /\ t[1] # "0"

\* %M of strptime, ([0-5]\d|\d), taking ml characters of t from position p
MinuteFieldOK(t, p, ml) ==
  /\ p + ml - 1 <= Len(t)
  /\ IF ml = 2
     THEN t[p] \in {"0", "1", "2", "3", "4", "5"} /\ IsDigit(t[p + 1])
     ELSE IsDigit(t[p])

\* "%I:%M%p" matches all of t with hl hour and ml minute characters
FormatMatches(t, hl, ml) ==
  /\ HourFieldOK(t, hl)
  /\ hl + 1 <= Len(t) /\ t[hl + 1] = ":"
  /\ MinuteFieldOK(t, hl + 2, ml)
  /\ Len(t) = hl + 1 + ml + 2
  /\ t[Len(t) - 1] \in {"a", "p", "A", "P"}
  /\ t[Len(t)] \in {"m", "M"}

\* the alternatives of the pattern in the order the regex engine tries them
FieldLengths == <<<<2, 2>>, <<2, 1>>, <<1, 2>>, <<1, 1>>>>

\* the first alternative of FieldLengths that matches t, 0 when none does
RECURSIVE FirstFit(_, _)
FirstFit(t, k) ==
  IF k > Len(FieldLengths) THEN 0
  ELSE IF FormatMatches(t, FieldLengths[k][1], FieldLengths[k][2]) THEN k
  ELSE FirstFit(t, k + 1)

RECURSIVE DigitsValue(_)
DigitsValue(ds) ==
  IF ds = <<>> THEN 0
  ELSE 10 * DigitsValue(SubSeq(ds, 1, Len(ds) - 1)) + DigitVal(ds[Len(ds)])

\* the hour of the day for the %I hour and the %p half
Hour24(hour, pm) ==
  IF pm
  THEN (IF hour = 12 THEN 12 ELSE hour + 12)
  ELSE (IF hour = 12 THEN 0 ELSE hour)

\* the minutes past midnight of t read with hl hour and ml minute characters
FieldValues(t, hl, ml) ==
  [ok |-> TRUE,
   minutes |->
     Hour24(DigitsValue(SubSeq(t, 1, hl)), t[Len(t) - 1] \in {"p", "P"})
       * MinutesPerHour
     + DigitsValue(SubSeq(t, hl + 2, hl + 1 + ml))]

\* strptime's result for the alternative k
StrptimeFit(t, k) ==
  IF k = 0
  THEN [ok |-> FALSE, minutes |-> 0]
  ELSE FieldValues(t, FieldLengths[k][1], FieldLengths[k][2])

\* datetime.strptime(t, "%I:%M%p"): the minutes past midnight, or a
\* ValueError when t does not match the format
Strptime(t) == StrptimeFit(t, FirstFit(t, 1))

\* .replace(year=today.year, month=today.month, day=today.day)
OnDate(p, today) == [ok |-> p.ok, dt |-> today * MinutesPerDay + p.minutes]

\* to_dt(t): strptime of t.strip(), moved to the date today
to_dt(t, today) == OnDate(Strptime(Strip(t)), today)

\* CrossesMidnight with the comparison made strict
CrossesMidnight_Strict(start_dt, end_dt) == end_dt < start_dt

\* end_dt <= start_dt: the range ends on the next day
CrossesMidnight(start_dt, end_dt) == end_dt <= start_dt

\* a ValueError leaves parse_time_range; carried is the string its message
\* carries
RaiseValueError(what) ==
  [ok |-> FALSE, start |-> 0, end |-> 0, branch |-> "raise",
   error |-> "ValueError", carried |-> what]

\* if len(full_times) == 1, with s = to_dt(full_times[0])
SingleTime(full_times, s) ==
  IF ~s.ok THEN RaiseValueError(Strip(full_times[1]))
  ELSE [ok |-> TRUE, start |-> s.dt, end |-> s.dt + MinutesPerHour,
        branch |-> "single", error |-> "none", carried |-> <<>>]

\* if len(full_times) >= 2, with s and e = to_dt of the first two
TimePair(full_times, s, e) ==
  IF ~s.ok THEN RaiseValueError(Strip(full_times[1]))
  ELSE IF ~e.ok THEN RaiseValueError(Strip(full_times[2]))
  ELSE [ok |-> TRUE, start |-> s.dt,
        end |-> IF CrossesMidnight(s.dt, e.dt)
                THEN e.dt + MinutesPerDay
                ELSE e.dt,
        branch |-> "range", error |-> "none", carried |-> <<>>]

\* parse_time_range once full_times is extracted
ResolveTimes(full_times, time_str, today) ==
  IF Len(full_times) = 1
  THEN SingleTime(full_times, to_dt(full_times[1], today))
  ELSE IF Len(full_times) >= 2
  THEN TimePair(full_times, to_dt(full_times[1], today),
                to_dt(full_times[2], today))
  ELSE RaiseValueError(time_str)

\* parse_time_range(time_str) on the date today.  branch names the return
\* statement taken.
parse_time_range(time_str, today) ==
  ResolveTimes(FindAll(Lower(time_str)), time_str, today)

\* ------------------------------------------------------------------------
\* fetch_single_eid: the body of the loop over the event nodes
\* ------------------------------------------------------------------------

\* datetime.datetime.now().date() at the instant t
Day(t) == t \div MinutesPerDay

\* IsPast with the comparison made inclusive
IsPast_Inclusive(start_time, now) == start_time <= now

\* start_time < now: the event is in the past and is dropped
IsPast(start_time, now) == start_time < now

\* the dict appended to results
MakeRecord(eid, room_name_text, time_str, status_str) ==
  [eid |-> eid, Name |-> room_name_text, time |-> time_str,
   status |-> status_str]

NoRecord == MakeRecord(<<>>, <<>>, <<>>, <<>>)

\* the loop body once the title is parsed (pt) and resolved (tr)
ScrapeResolved(eid, room_name_text, pt, tr, now) ==
  IF ~tr.ok
  THEN [kind |-> "raise", rec |-> NoRecord, start |-> 0, end |-> 0,
        branch |-> tr.branch]
  ELSE IF IsPast(tr.start, now)
  THEN [kind |-> "past", rec |-> NoRecord, start |-> tr.start,
        end |-> tr.end, branch |-> tr.branch]
  ELSE [kind |-> "append",
        rec |-> MakeRecord(eid, room_name_text, pt.time_str, pt.status),
        start |-> tr.start, end |-> tr.end, branch |-> tr.branch]

\* the loop body once the title is parsed (pt)
ScrapeParsed(eid, room_name_text, pt, now, today) ==
  ScrapeResolved(eid, room_name_text, pt,
                 parse_time_range(pt.time_str, today), now)

\* One iteration of "for e in events" for the node whose title attribute is
\* title, with now sampled before the loop and today read by
\* parse_time_range.  kind is what the iteration does: "skip" (empty title),
\* "raise" (the ValueError of parse_time_range leaves the loop), "past"
\* (dropped) or "append"; start and end are what parse_time_range returned.
ScrapeEvent(eid, room_name_text, title, now, today) ==
  IF title = <<>>
  THEN [kind |-> "skip", rec |-> NoRecord, start |-> 0, end |-> 0,
        branch |-> "none"]
  ELSE ScrapeParsed(eid, room_name_text, parse_title(title), now, today)

\* ------------------------------------------------------------------------
\* State
\* ------------------------------------------------------------------------

VARIABLES
  clock,     \* the wall clock read by datetime.datetime.now(), in minutes
  text,      \* the string handed to the parsing functions called on their own
  stage,     \* which of them has been applied to text
  ptitle,    \* what parse_title(text) returned
  prange,    \* what parse_time_range(text) returned
  pevent,    \* what one loop iteration of fetch_single_eid did with text
  eidFile,   \* the lines of codeList4Shapiro2ndFloor.txt
  site,      \* the pages the calendar URL can render
  workers,   \* the request threads of the Flask server
  sent,      \* how many /api/run_fetch requests the clients have sent
  run,       \* per request thread: the state of its run_fetch call
  file,      \* the content of static/record.json
  observed,  \* the body of the last answer to GET /record.json
  clean      \* no write to record.json has overlapped another since the
             \* file was last truncated by a lone writer

parseVars == <<text, stage, ptitle, prange, pevent>>

\* what no step of the server changes
envVars == <<eidFile, site, workers>>

serverVars == <<envVars, sent, run, file, observed, clean>>

vars == <<clock, parseVars, serverVars>>

\* ------------------------------------------------------------------------
\* The parsing functions called on their own
\* ------------------------------------------------------------------------

\* the most segments an input title is joined from
MaxSegments == 4

TokOnePm == <<"1", ":", "0", "0", "p", "m">>

TokElevenThirtyPM == <<"1", "1", ":", "3", "0", "P", "M">>

TokMidnightFive == <<"1", "2", ":", "0", "5", "a", "m">>

TokSpaced == <<"8", ":", "0", "0", " ", "a", "m">>

TokHourThirteen == <<"1", "3", ":", "0", "0", "p", "m">>

\* the segments input titles are joined from: empty, a word, a word in
\* whitespace, one that ends like the start of a separator, clock tokens
\* (valid, upper case, 12 am, with inner whitespace, with hour 13) and two
\* tokens side by side
SegmentPool ==
  { <<>>,
    <<"O", "k">>,
    <<" ", "R", "2", "\t">>,
    <<"x", " ", "-">>,
    TokOnePm,
    TokElevenThirtyPM,
    TokMidnightFive,
    TokSpaced,
    TokHourThirteen,
    <<"9", ":", "1", "5", "a", "m">> \o TokOnePm }

RECURSIVE SegmentLists(_)
SegmentLists(n) ==
  IF n = 0 THEN {<<>>}
  ELSE LET shorter == SegmentLists(n - 1)
       IN  shorter \cup
           {Append(l, g) : l \in {x \in shorter : Len(x) = n - 1},
                           g \in SegmentPool}

\* the input strings: one to MaxSegments pool segments joined with " - "
Inputs == {Join(l, Sep) : l \in SegmentLists(MaxSegments) \ {<<>>}}

\* the instant at which the functions are called: 13:00 on day 1
ParseInstant == MinutesPerDay + 13 * MinutesPerHour

\* the resource the single loop iteration is run for
ProbeEid == <<"e", "0">>

ProbeName == <<"R", "o", "o", "m", " ", "0">>

NoTitle == [raised |-> "none", time_str |-> <<>>, status |-> <<>>,
            room_name |-> <<>>]

NoRange == [ok |-> FALSE, start |-> 0, end |-> 0, branch |-> "none",
            error |-> "none", carried |-> <<>>]

NoEvent == [kind |-> "none", rec |-> NoRecord, start |-> 0, end |-> 0,
            branch |-> "none"]

ParseIdle ==
  /\ text = <<>>
  /\ stage = "off"
  /\ ptitle = NoTitle
  /\ prange = NoRange
  /\ pevent = NoEvent

ServerOff ==
  /\ eidFile = <<>>
  /\ site = {}
  /\ workers = {}
  /\ sent = 0
  /\ run = <<>>
  /\ file = <<>>
  /\ observed = [body |-> <<>>, quiet |-> TRUE]
  /\ clean = TRUE

InitParse ==
  /\ clock = ParseInstant
  /\ text \in Inputs
  /\ stage = "input"
  /\ ptitle = NoTitle
  /\ prange = NoRange
  /\ pevent = NoEvent
  /\ ServerOff

\* time_str, status, room = parse_title(text)
CallParseTitle ==
  /\ stage = "input"
  /\ ptitle' = parse_title(text)
  /\ stage' = "title"
  /\ UNCHANGED <<clock, text, prange, pevent, serverVars>>

\* start, end = parse_time_range(text)
CallParseTimeRange ==
  /\ stage = "input"
  /\ prange' = parse_time_range(text, Day(clock))
  /\ stage' = "range"
  /\ UNCHANGED <<clock, text, ptitle, pevent, serverVars>>

\* the loop body of fetch_single_eid for a node whose title is text
CallScrapeEvent ==
  /\ stage = "input"
  /\ pevent' = ScrapeEvent(ProbeEid, ProbeName, text, clock, Day(clock))
  /\ stage' = "event"
  /\ UNCHANGED <<clock, text, ptitle, prange, serverVars>>

NextParse ==
  \/ CallParseTitle
  \/ CallParseTimeRange
  \/ CallScrapeEvent

SpecParse == InitParse /\ [][NextParse]_vars

\* ------------------------------------------------------------------------
\* The rendered page, the identifier file and record.json
\* ------------------------------------------------------------------------

\* an <a> node of a lane: whether it has a title attribute, and its value
Node(title) == [hasTitle |-> TRUE, title |-> title]

UntitledNode == [hasTitle |-> FALSE, title |-> <<>>]

\* td.query_selector_all(".fc-timeline-event-harness a[title]") followed by
\* get_attribute("title"): the titles of the nodes that have the attribute,
\* in DOM order
QuerySelectorAll(nodes) ==
  LET HasTitle(n) == n.hasTitle
      found == SelectSeq(nodes, HasTitle)
  IN  [i \in 1..Len(found) |-> found[i].title]

\* a page: the nodes of each lane cell and the text of each name cell, by
\* data-resource-id
NoPage == [lanes |-> <<>>, names |-> <<>>]

\* page.query_selector(selector) finds the lane cell of eid
HasLane(page, eid) == eid \in DOMAIN page.lanes

\* room_name_text = await name_elem.inner_text() if name_elem else "Unknown"
RoomNameText(page, eid) ==
  IF eid \in DOMAIN page.names THEN page.names[eid] ELSE Unknown

\* eids = [line.strip() for line in f if line.strip()]
ReadEidLines(lines) ==
  LET NonBlank(l) == Strip(l) # <<>>
      kept == SelectSeq(lines, NonBlank)
  IN  [i \in 1..Len(kept) |-> Strip(kept[i])]

\* record.json as the chunks json.dump writes: the opening bracket, one
\* chunk per record, the closing bracket; a hole is what the file system
\* puts where a write lands beyond the end of the file
Chunk(kind, rec) == [kind |-> kind, rec |-> rec]

Hole == Chunk("hole", NoRecord)

\* JsonDump without the closing bracket
JsonDump_Unclosed(data) ==
  <<Chunk("[", NoRecord)>>
    \o [i \in 1..Len(data) |-> Chunk("item", data[i])]

\* json.dump(data, f, indent=4, ensure_ascii=False)
JsonDump(data) ==
  <<Chunk("[", NoRecord)>>
    \o [i \in 1..Len(data) |-> Chunk("item", data[i])]
    \o <<Chunk("]", NoRecord)>>

\* f.write of chunks at offset off of a file opened with "w"
WriteAt(content, off, chunks) ==
  LET n == IF chunks = <<>> THEN Len(content)
           ELSE IF off + Len(chunks) > Len(content) THEN off + Len(chunks)
           ELSE Len(content)
  IN  [i \in 1..n |->
         IF i > off /\ i <= off + Len(chunks) THEN chunks[i - off]
         ELSE IF i <= Len(content) THEN content[i]
         ELSE Hole]

\* ------------------------------------------------------------------------
\* run_fetch, fetch_all, fetch_single_eid and save_json, step by step
\* ------------------------------------------------------------------------

\* the most /api/run_fetch requests the clients send
MaxRequests == 2

NoResponse == [status |-> "none", count |-> 0, message |-> "none"]

\* a request thread with no run_fetch call in progress.  acquired and
\* released count the launches and the closings of the browser, calls logs
\* each fetch_single_eid call that returned, starts logs the start resolved
\* for each node of the current call, and before is record.json as it was
\* when the request arrived.
IdleRun ==
  [pc |-> "idle", eids |-> <<>>, pw |-> "none", browser |-> "none",
   page |-> NoPage, idx |-> 0, all_results |-> <<>>, eid |-> <<>>,
   room_name_text |-> <<>>, events |-> <<>>, ev |-> 0, results |-> <<>>,
   now |-> 0, exc |-> "none", data |-> <<>>, flushed |-> 0,
   resp |-> NoResponse, acquired |-> 0, released |-> 0, calls |-> <<>>,
   starts |-> <<>>, before |-> <<>>]

\* some thread has record.json open for writing
WriterOpen == \E q \in workers : run[q].pc = "save_write"

\* @app.route("/api/run_fetch"): a request arrives on thread r
Trigger(r) ==
  /\ sent < MaxRequests
  /\ run[r].pc \in {"idle", "responded"}
  /\ sent' = sent + 1
  /\ run' = [run EXCEPT ![r] =
               [IdleRun EXCEPT !.pc = "read_eids", !.before = file]]
  /\ UNCHANGED <<clock, parseVars, envVars, file, observed, clean>>

\* fetch_all: the identifier file is read
ReadEids(r) ==
  /\ run[r].pc = "read_eids"
  /\ run' = [run EXCEPT ![r].eids = ReadEidLines(eidFile),
                        ![r].pc = "start_playwright"]
  /\ UNCHANGED <<clock, parseVars, envVars, sent, file, observed, clean>>

\* async with async_playwright() as p: the driver is started
StartPlaywright(r) ==
  /\ run[r].pc = "start_playwright"
  /\ run' = [run EXCEPT ![r].pw = "running", ![r].pc = "launch"]
  /\ UNCHANGED <<clock, parseVars, envVars, sent, file, observed, clean>>

\* browser = await p.chromium.launch(headless=True); browser.new_page()
Launch(r) ==
  /\ run[r].pc = "launch"
  /\ run' = [run EXCEPT ![r].browser = "open",
                        ![r].acquired = @ + 1,
                        ![r].pc = "goto"]
  /\ UNCHANGED <<clock, parseVars, envVars, sent, file, observed, clean>>

\* await page.goto(url, timeout=0); wait_for_timeout; all_results = []
Goto(r) ==
  /\ run[r].pc = "goto"
  /\ \E p \in site :
       run' = [run EXCEPT ![r].page = p,
                          ![r].all_results = <<>>,
                          ![r].idx = 1,
                          ![r].pc = "loop"]
  /\ UNCHANGED <<clock, parseVars, envVars, sent, file, observed, clean>>

\* page.goto raises (the site cannot be reached)
GotoFails(r) ==
  /\ run[r].pc = "goto"
  /\ run' = [run EXCEPT ![r].exc = "Error", ![r].pc = "exit_playwright"]
  /\ UNCHANGED <<clock, parseVars, envVars, sent, file, observed, clean>>

\* AfterMissingLane ending the loop of fetch_all
AfterMissingLane_Abort(idx, n) == n + 1

\* the index of the next identifier after one whose lane cell is not found
AfterMissingLane(idx, n) == idx + 1

\* fetch_single_eid: td is None, [] is returned and extends all_results
LaneMissing(r) ==
  LET R == run[r]
  IN  /\ R.pc = "loop"
      /\ R.idx <= Len(R.eids)
      /\ ~HasLane(R.page, R.eids[R.idx])
      /\ run' = [run EXCEPT
                   ![r].calls = Append(@, [eid |-> R.eids[R.idx],
                                           found |-> FALSE,
                                           result |-> <<>>]),
                   ![r].idx = AfterMissingLane(R.idx, Len(R.eids))]
      /\ UNCHANGED <<clock, parseVars, envVars, sent, file, observed, clean>>

\* fetch_single_eid up to the loop: the lane cell is found, the name is
\* read, the event nodes are selected and now is sampled
EnterLane(r) ==
  LET R == run[r]
      eid == R.eids[R.idx]
  IN  /\ R.pc = "loop"
      /\ R.idx <= Len(R.eids)
      /\ HasLane(R.page, eid)
      /\ run' = [run EXCEPT
                   ![r].eid = eid,
                   ![r].room_name_text = RoomNameText(R.page, eid),
                   ![r].events = QuerySelectorAll(R.page.lanes[eid]),
                   ![r].ev = 1,
                   ![r].results = <<>>,
                   ![r].starts = <<>>,
                   ![r].now = clock,
                   ![r].pc = "events"]
      /\ UNCHANGED <<clock, parseVars, envVars, sent, file, observed, clean>>

\* what the loop body does with the next node of the lane
NextNode(R) ==
  ScrapeEvent(R.eid, R.room_name_text, R.events[R.ev], R.now, Day(clock))

\* the thread after a loop iteration that did out: a ValueError leaves
\* fetch_single_eid and the loop of fetch_all; otherwise the record is
\* appended or not and the loop goes on
AfterNode(R, out) ==
  IF out.kind = "raise"
  THEN [R EXCEPT !.exc = "ValueError", !.pc = "exit_playwright"]
  ELSE [R EXCEPT !.results = IF out.kind = "append"
                             THEN Append(@, out.rec)
                             ELSE @,
                 !.starts = Append(@, out.start),
                 !.ev = @ + 1]

\* one iteration of "for e in events"
ScrapeNode(r) ==
  /\ run[r].pc = "events"
  /\ run[r].ev <= Len(run[r].events)
  /\ run' = [run EXCEPT ![r] = AfterNode(run[r], NextNode(run[r]))]
  /\ UNCHANGED <<clock, parseVars, envVars, sent, file, observed, clean>>

\* return results; all_results.extend(data)
ReturnResults(r) ==
  LET R == run[r]
  IN  /\ R.pc = "events"
      /\ R.ev > Len(R.events)
      /\ run' = [run EXCEPT
                   ![r].all_results = @ \o R.results,
                   ![r].calls = Append(@, [eid |-> R.eid,
                                           found |-> TRUE,
                                           result |-> R.results]),
                   ![r].idx = @ + 1,
                   ![r].pc = "loop"]
      /\ UNCHANGED <<clock, parseVars, envVars, sent, file, observed, clean>>

\* await browser.close(); return all_results
CloseBrowser(r) ==
  LET R == run[r]
  IN  /\ R.pc = "loop"
      /\ R.idx > Len(R.eids)
      /\ run' = [run EXCEPT ![r].browser = "closed",
                            ![r].released = @ + 1,
                            ![r].pc = "exit_playwright"]
      /\ UNCHANGED <<clock, parseVars, envVars, sent, file, observed, clean>>

\* DriverStopped leaving the browser as it is
DriverStopped_BrowserKept(browser) == browser

\* the browser once the driver is stopped: stopping the driver ends a
\* browser that is still open
DriverStopped(browser) == IF browser = "open" THEN "closed" ELSE browser

\* AfterFetchAll going on to save_json whatever came out
AfterFetchAll_AlwaysSave(exc) == "save_open"

\* where run_fetch goes after asyncio.run(fetch_all()): on to save_json, or
\* to the except clause when an exception came out
AfterFetchAll(exc) == IF exc = "none" THEN "save_open" ELSE "except"

\* the end of the async with block, reached by return or by an exception;
\* data = asyncio.run(fetch_all())
ExitPlaywright(r) ==
  LET R == run[r]
  IN  /\ R.pc = "exit_playwright"
      /\ run' = [run EXCEPT
                   ![r].pw = "stopped",
                   ![r].browser = DriverStopped(R.browser),
                   ![r].released =
                     IF DriverStopped(R.browser) # R.browser THEN @ + 1
                     ELSE @,
                   ![r].data = IF AfterFetchAll(R.exc) = "save_open"
                               THEN R.all_results ELSE @,
                   ![r].pc = AfterFetchAll(R.exc)]
      /\ UNCHANGED <<clock, parseVars, envVars, sent, file, observed, clean>>

\* save_json: open(filename, "w") truncates record.json
SaveOpen(r) ==
  /\ run[r].pc = "save_open"
  /\ file' = <<>>
  /\ clean' = ~WriterOpen
  /\ run' = [run EXCEPT ![r].flushed = 0, ![r].pc = "save_write"]
  /\ UNCHANGED <<clock, parseVars, envVars, sent, observed>>

\* save_json: the write buffer is flushed before all of the document is in it
SaveFlush(r) ==
  LET R == run[r]
      doc == JsonDump(R.data)
  IN  /\ R.pc = "save_write"
      /\ \E k \in 1..(Len(doc) - R.flushed - 1) :
           /\ file' = WriteAt(file, R.flushed,
                              SubSeq(doc, R.flushed + 1, R.flushed + k))
           /\ run' = [run EXCEPT ![r].flushed = @ + k]
      /\ UNCHANGED <<clock, parseVars, envVars, sent, observed, clean>>

\* save_json: the with block ends, the rest of the document is flushed and
\* the file is closed
SaveClose(r) ==
  LET R == run[r]
      doc == JsonDump(R.data)
  IN  /\ R.pc = "save_write"
      /\ file' = WriteAt(file, R.flushed,
                         SubSeq(doc, R.flushed + 1, Len(doc)))
      /\ run' = [run EXCEPT ![r].flushed = Len(doc), ![r].pc = "saved"]
      /\ UNCHANGED <<clock, parseVars, envVars, sent, observed, clean>>

\* return jsonify({"status": "success", "count": len(data)})
RespondSuccess(r) ==
  /\ run[r].pc = "saved"
  /\ run' = [run EXCEPT
               ![r].resp = [status |-> "success",
                            count |-> Len(run[r].data),
                            message |-> "none"],
               ![r].pc = "responded"]
  /\ UNCHANGED <<clock, parseVars, envVars, sent, file, observed, clean>>

\* except Exception as e: return jsonify({"status": "error", ...})
RespondError(r) ==
  /\ run[r].pc = "except"
  /\ run' = [run EXCEPT
               ![r].resp = [status |-> "error", count |-> 0,
                            message |-> run[r].exc],
               ![r].pc = "responded"]
  /\ UNCHANGED <<clock, parseVars, envVars, sent, file, observed, clean>>

\* GET /record.json: the file as it is at that moment; quiet records that
\* no write was in progress and none had overlapped another
ServeRecord ==
  /\ workers # {}
  /\ observed' = [body |-> file, quiet |-> ~WriterOpen /\ clean]
  /\ UNCHANGED <<clock, parseVars, envVars, sent, run, file, clean>>

\* ------------------------------------------------------------------------
\* The environment of the server: the clock, the site, the identifier file
\* ------------------------------------------------------------------------

\* the most event nodes in the lane whose content varies
MaxEvents == 2

\* the instants the clock is read at: 13:00 and 13:30 on day 0
Instants ==
  {13 * MinutesPerHour, 13 * MinutesPerHour + 30}

\* time passes
Tick ==
  /\ workers # {}
  /\ \E t \in Instants : t > clock /\ clock' = t
  /\ UNCHANGED <<parseVars, serverVars>>

E1 == <<"e", "1">>

E2 == <<"e", "2">>

E9 == <<"e", "9">>

\* the identifier file: e1, a blank line, an identifier that is on no page
\* and, without a final newline, e2
EidLines ==
  << E1 \o <<"\n">>,
     <<" ", "\n">>,
     <<" ">> \o E9 \o <<"\t", "\n">>,
     E2 >>

\* "1:00pm - 11:30PM - Open": the slot that starts at 13:00
TitleSlot ==
  TokOnePm \o Sep \o TokElevenThirtyPM \o Sep \o <<"O", "p", "e", "n">>

\* "9:15am - Ok": a start that is past at every instant of day 0
TitleMorning == <<"9", ":", "1", "5", "a", "m">> \o Sep \o <<"O", "k">>

\* "11:30PM - 12:05am - R2 - Busy": an explicit range over midnight
TitleOvernight ==
  TokElevenThirtyPM \o Sep \o TokMidnightFive \o Sep \o <<"R", "2">>
    \o Sep \o <<"B", "u", "s", "y">>

\* "soon - Ok": a label with no clock token
TitleNoTime == <<"s", "o", "o", "n">> \o Sep \o <<"O", "k">>

\* the nodes a lane is filled from: the four titles, an empty title and a
\* node without the attribute
NodePool ==
  { Node(TitleSlot), Node(TitleMorning), Node(TitleOvernight),
    Node(TitleNoTime), Node(<<>>), UntitledNode }

RECURSIVE Lanes(_)
Lanes(n) ==
  IF n = 0 THEN {<<>>}
  ELSE LET shorter == Lanes(n - 1)
       IN  shorter \cup
           {Append(l, x) : l \in {y \in shorter : Len(y) = n - 1},
                           x \in NodePool}

RoomA == <<"R", "o", "o", "m", " ", "A">>

\* a page with lane cells for e1 and e2 and a name cell for e1 only
Page(lane1, lane2) ==
  [lanes |-> (E1 :> lane1) @@ (E2 :> lane2), names |-> (E1 :> RoomA)]

\* the page on which every title parses
PlainPage == Page(<<Node(TitleOvernight)>>, <<Node(TitleSlot)>>)

\* the page whose second lane holds a title with no clock token
BrokenPage == Page(<<Node(TitleOvernight)>>, <<Node(TitleNoTime)>>)

\* record.json as an earlier run left it
SavedBefore == JsonDump(<<>>)

InitServer ==
  /\ clock = 13 * MinutesPerHour
  /\ ParseIdle
  /\ eidFile = EidLines
  /\ sent = 0
  /\ run = [r \in workers |-> IdleRun]
  /\ file = SavedBefore
  /\ observed = [body |-> SavedBefore, quiet |-> TRUE]
  /\ clean = TRUE

\* one request thread at a time; the site renders PlainPage or a page whose
\* second lane is any lane of up to MaxEvents nodes
InitOne ==
  /\ workers = {"t1"}
  /\ \E lane \in Lanes(MaxEvents) :
       site = {PlainPage, Page(<<Node(TitleOvernight)>>, lane)}
  /\ InitServer

\* two request threads; the site renders PlainPage or BrokenPage
Init ==
  /\ workers = {"t1", "t2"}
  /\ site = {PlainPage, BrokenPage}
  /\ InitServer

Next ==
  \/ \E r \in workers : Trigger(r)
  \/ \E r \in workers : ReadEids(r)
  \/ \E r \in workers : StartPlaywright(r)
  \/ \E r \in workers : Launch(r)
  \/ \E r \in workers : Goto(r)
  \/ \E r \in workers : GotoFails(r)
  \/ \E r \in workers : LaneMissing(r)
  \/ \E r \in workers : EnterLane(r)
  \/ \E r \in workers : ScrapeNode(r)
  \/ \E r \in workers : ReturnResults(r)
  \/ \E r \in workers : CloseBrowser(r)
  \/ \E r \in workers : ExitPlaywright(r)
  \/ \E r \in workers : SaveOpen(r)
  \/ \E r \in workers : SaveFlush(r)
  \/ \E r \in workers : SaveClose(r)
  \/ \E r \in workers : RespondSuccess(r)
  \/ \E r \in workers : RespondError(r)
  \/ ServeRecord
  \/ Tick

\* the server with its requests handled concurrently
Spec == Init /\ [][Next]_vars

\* the server with one run_fetch request in progress at a time
SpecOne == InitOne /\ [][Next]_vars

\* ------------------------------------------------------------------------
\* Properties of the parsing functions (SpecParse)
\* ------------------------------------------------------------------------

\* the segments of text as str.split(" - ") gives them, untrimmed
RawSegments == Split(text, Sep)

\* each segment of a list with its surrounding whitespace removed
Trimmed(segments) == [i \in 1..Len(segments) |-> Strip(segments[i])]

TrimmedSegments == Trimmed(RawSegments)

\* the clock tokens of text, left to right
Tokens == FindAll(Lower(text))

\* the minutes past midnight a 12-hour clock token H:MMam / H:MMpm names
ClockValue(tok) ==
  LET colon == CHOOSE i \in 1..Len(tok) : tok[i] = ":"
      h == DigitsValue(SubSeq(tok, 1, colon - 1))
      m == DigitsValue(SubSeq(tok, colon + 1, colon + 2))
      half == IF tok[Len(tok) - 1] = "p" THEN 12 ELSE 0
  IN  ((h % 12) + half) * 60 + m

\* C1, as stated: for a title of three or more segments parse_title returns
\* the last segment as status, the second-to-last segment character for
\* character as roomName and the earlier segments rejoined with " - " as
\* timeLabel.
C1_SegmentsVerbatim ==
  stage = "title" =>
    LET raw == RawSegments
        n == Len(raw)
    IN  n >= 3 =>
          /\ ptitle.status = raw[n]
          /\ ptitle.room_name = raw[n - 1]
          /\ ptitle.time_str = Join(SubSeq(raw, 1, n - 2), Sep)

\* C1, amended: for a title of three or more segments parse_title returns
\* the last segment, the second-to-last segment and the earlier segments
\* rejoined with " - ", each segment with its leading and trailing
\* whitespace removed.
C1_SegmentsTrimmed ==
  stage = "title" =>
    LET trimmed == TrimmedSegments
        n == Len(trimmed)
    IN  n >= 3 =>
          /\ ptitle.status = trimmed[n]
          /\ ptitle.room_name = trimmed[n - 1]
          /\ ptitle.time_str = Join(SubSeq(trimmed, 1, n - 2), Sep)

\* C1's case: a parsed title of four segments whose room segment is padded
C1_Witness ==
  /\ stage = "title"
  /\ Len(RawSegments) = 4
  /\ RawSegments[3] # TrimmedSegments[3]
  /\ ptitle.room_name = <<"R", "2">>

\* C2, as stated: parse_title raises for no input, and for a title of two or
\* fewer segments returns roomName "Unknown", the first segment as timeLabel
\* and the last segment as status.
C2_FallbackVerbatim ==
  stage = "title" =>
    LET raw == RawSegments
    IN  /\ ptitle.raised = "none"
        /\ Len(raw) <= 2 =>
             /\ ptitle.room_name = Unknown
             /\ ptitle.time_str = raw[1]
             /\ ptitle.status = raw[Len(raw)]

\* C2, amended: parse_title raises for no input, and for a title of two or
\* fewer segments returns roomName "Unknown", the first segment as timeLabel
\* and the last segment as status, each with its leading and trailing
\* whitespace removed.
C2_FallbackTrimmed ==
  stage = "title" =>
    LET trimmed == TrimmedSegments
    IN  /\ ptitle.raised = "none"
        /\ Len(trimmed) <= 2 =>
             /\ ptitle.room_name = Unknown
             /\ ptitle.time_str = trimmed[1]
             /\ ptitle.status = trimmed[Len(trimmed)]

\* C2's case: a parsed title of two segments, the first one padded
C2_Witness ==
  /\ stage = "title"
  /\ Len(RawSegments) = 2
  /\ RawSegments[1] # TrimmedSegments[1]
  /\ ptitle.room_name = Unknown

\* C3: a successful parse_time_range returns as start the first clock token
\* on the current date; with one token end is start + 1 hour; with two or
\* more, end is the second token on the current date, moved one day on when
\* that is not after start; so start < end <= start + 24 hours.
C3_RangeResolved ==
  stage = "range" /\ prange.ok =>
    LET midnight == Day(clock) * 1440
        tokens == Tokens
    IN  /\ Len(tokens) >= 1
        /\ prange.start = midnight + ClockValue(tokens[1])
        /\ Len(tokens) = 1 => prange.end = prange.start + 60
        /\ Len(tokens) >= 2 =>
             LET sameDay == midnight + ClockValue(tokens[2])
             IN  prange.end = IF sameDay <= prange.start
                              THEN sameDay + 1440
                              ELSE sameDay
        /\ prange.start < prange.end
        /\ prange.end <= prange.start + 1440

\* C3's case: three tokens, the second one equal to the first, so that the
\* end is moved to the next day and the third token is ignored
C3_Witness ==
  /\ stage = "range"
  /\ prange.ok
  /\ Len(Tokens) >= 3
  /\ ClockValue(Tokens[2]) = ClockValue(Tokens[1])
  /\ prange.end = prange.start + 1440

\* C4, as stated: parse_time_range fails exactly when no clock token is
\* extracted from the label, the failure then carries the label, and every
\* label with at least one token resolves without error.
C4_FailsOnlyWithoutToken ==
  stage = "range" =>
    LET tokens == Tokens
    IN  /\ prange.ok <=> Len(tokens) >= 1
        /\ Len(tokens) = 0 =>
             prange.error = "ValueError" /\ prange.carried = text

\* seg is one well-formed clock token and nothing else
IsClockToken(seg) ==
  /\ FindAll(Lower(seg)) = <<Lower(seg)>>
  /\ Strptime(seg).ok

\* raw is the segments of "<start token> - <end token> - <status>"
TokenTokenStatus(raw) ==
  /\ Len(raw) = 3
  /\ IsClockToken(raw[1])
  /\ IsClockToken(raw[2])

IsTokenTokenStatus == TokenTokenStatus(RawSegments)

\* C10, first part: in the loop body a title "<start token> - <end token> -
\* <status>" has its end token taken as the room name, the start token alone
\* is the label given to the resolver and stored as the record's time, and
\* the resolved end is start + 1 hour whatever the end token is.
C10_EndTokenIsRoom ==
  stage = "event" =>
    LET raw == RawSegments
    IN  TokenTokenStatus(raw) =>
          /\ parse_title(text).room_name = raw[2]
          /\ pevent.kind \in {"past", "append"}
          /\ pevent.branch = "single"
          /\ pevent.start = Day(clock) * 1440 + ClockValue(Lower(raw[1]))
          /\ pevent.end = pevent.start + 60
          /\ pevent.kind = "append" => pevent.rec.time = raw[1]

\* C10, last part: the record's Name is the text of the resource's name
\* cell, never the room name parsed from the title.
C10_NameFromCell ==
  stage = "event" /\ pevent.kind = "append" =>
    /\ pevent.rec.Name = ProbeName
    /\ pevent.rec.Name # parse_title(text).room_name
    /\ pevent.rec.eid = ProbeEid

\* C10, as stated: the three parts, the middle one being that the branch of
\* the resolver for an explicit range is reached from the loop body only for
\* titles of four or more segments.
C10_RangeNeedsFourSegments ==
  /\ C10_EndTokenIsRoom
  /\ stage = "event" /\ pevent.branch = "range" => Len(RawSegments) >= 4
  /\ C10_NameFromCell

\* C10, amended: the explicit-range branch is reached from the loop body
\* only for titles of four or more segments or titles with a segment that
\* itself holds two or more clock tokens; the other two parts as stated.
C10_RangeNeedsTwoTokensInLabel ==
  /\ C10_EndTokenIsRoom
  /\ stage = "event" /\ pevent.branch = "range" =>
       LET raw == RawSegments
       IN  \/ Len(raw) >= 4
           \/ \E i \in 1..Len(raw) : Len(FindAll(Lower(raw[i]))) >= 2
  /\ C10_NameFromCell

\* C10's case: "11:30PM - 12:05am - Ok" is appended with the label
\* "11:30PM" and an end one hour after the start
C10_Witness ==
  /\ stage = "event"
  /\ IsTokenTokenStatus
  /\ RawSegments[1] = TokElevenThirtyPM
  /\ RawSegments[2] = TokMidnightFive
  /\ pevent.kind = "append"
  /\ pevent.rec.time = TokElevenThirtyPM
  /\ pevent.end = pevent.start + 60

\* ------------------------------------------------------------------------
\* Properties of the server (SpecOne, Spec)
\* ------------------------------------------------------------------------

\* the record of the i-th selected node of the current lane of thread R
RecordOf(R, i) ==
  [eid |-> R.eid, Name |-> R.room_name_text,
   time |-> parse_title(R.events[i]).time_str,
   status |-> parse_title(R.events[i]).status]

\* the i-th selected node has a title and a start not earlier than now
Retained(R, i) == R.events[i] # <<>> /\ R.starts[i] >= R.now

\* the records of the retained nodes among the first n, in DOM order
RECURSIVE KeptUpTo(_, _)
KeptUpTo(R, n) ==
  IF n = 0 THEN <<>>
  ELSE IF Retained(R, n) THEN Append(KeptUpTo(R, n - 1), RecordOf(R, n))
  ELSE KeptUpTo(R, n - 1)

\* C5: for a resource whose lane is found, the records built so far, and
\* the list fetch_single_eid returns, are exactly the records {eid, Name,
\* time, status}, in DOM order, of the nodes with a non-empty title whose
\* resolved start is not earlier than the now sampled for the resource.
C5_FutureEventsKept ==
  \A r \in workers :
    LET R == run[r]
    IN  /\ R.pc = "events" =>
             /\ Len(R.starts) = R.ev - 1
             /\ R.results = KeptUpTo(R, R.ev - 1)
        /\ R.pc = "loop" /\ R.calls # <<>> /\ R.calls[Len(R.calls)].found =>
             R.calls[Len(R.calls)].result = KeptUpTo(R, Len(R.events))

\* C5's case: a lane of two titled nodes is done, one starting exactly at
\* now and kept, the other earlier than now and dropped
C5_Witness ==
  \E r \in workers :
    LET R == run[r]
    IN  /\ R.pc = "events"
        /\ R.ev > Len(R.events)
        /\ Len(R.events) = 2
        /\ R.events[1] # <<>> /\ R.starts[1] = R.now
        /\ R.events[2] # <<>> /\ R.starts[2] < R.now
        /\ Len(R.results) = 1

C7_BrowserReleasedOnce ==
  \A r \in workers :
    LET R == run[r]
    IN  /\ R.acquired <= 1
        /\ R.released <= R.acquired
        /\ R.browser = "open" => R.pw = "running"
        /\ R.pc \in {"save_open", "save_write", "saved", "except",
                     "responded"} =>
             /\ R.acquired = 1
             /\ R.released = 1
             /\ R.browser = "closed"
             /\ R.pw = "stopped"

\* C7's case: a parse failure in the middle of the batch has left fetch_all
C7_Witness ==
  \E r \in workers :
    LET R == run[r]
    IN  /\ R.pc = "except"
        /\ R.exc = "ValueError"
        /\ R.all_results # <<>>
        /\ R.released = 1
        /\ R.browser = "closed"

\* the non-blank lines of the identifier file, trimmed, in file order
RECURSIVE TrimmedNonBlank(_)
TrimmedNonBlank(lines) ==
  IF lines = <<>> THEN <<>>
  ELSE IF Strip(Head(lines)) = <<>> THEN TrimmedNonBlank(Tail(lines))
  ELSE <<Strip(Head(lines))>> \o TrimmedNonBlank(Tail(lines))

\* the results of the calls, concatenated in call order
RECURSIVE Concatenated(_)
Concatenated(calls) ==
  IF calls = <<>> THEN <<>>
  ELSE Head(calls).result \o Concatenated(Tail(calls))

\* fetch_all has returned in the run of thread R
Returned(R) ==
  /\ R.exc = "none"
  /\ R.pc \in {"exit_playwright", "save_open", "save_write", "saved",
               "responded"}

\* C8: while the batch runs, the identifiers scraped are a prefix of the
\* non-blank lines of the identifier file and all_results is the
\* concatenation of their results; when fetch_all returns, every non-blank
\* line has been scraped once, in order, and an identifier whose lane cell
\* is not on the page contributed the empty list.
C8_BatchIsConcatenation ==
  \A r \in workers :
    LET R == run[r]
        ids == TrimmedNonBlank(eidFile)
    IN  /\ R.pc \in {"loop", "events"} \/ Returned(R) =>
             /\ Len(R.calls) <= Len(ids)
             /\ \A i \in 1..Len(R.calls) : R.calls[i].eid = ids[i]
             /\ R.all_results = Concatenated(R.calls)
             /\ \A i \in 1..Len(R.calls) :
                  /\ R.calls[i].found <=> HasLane(R.page, ids[i])
                  /\ ~R.calls[i].found => R.calls[i].result = <<>>
        /\ Returned(R) => Len(R.calls) = Len(ids)

\* C8's case: fetch_all returned after an identifier that was not found,
\* followed by one that was found and gave records
C8_Witness ==
  \E r \in workers :
    LET R == run[r]
    IN  /\ Returned(R)
        /\ Len(R.calls) = 3
        /\ R.calls[1].result # <<>>
        /\ ~R.calls[2].found
        /\ R.calls[3].found
        /\ R.calls[3].result # <<>>
        /\ Len(R.all_results) = 2

\* content is one complete collection: the opening bracket, records only,
\* the closing bracket
IsDocument(content) ==
  /\ Len(content) >= 2
  /\ content[1].kind = "["
  /\ content[Len(content)].kind = "]"
  /\ \A i \in 2..(Len(content) - 1) : content[i].kind = "item"

\* C9, as stated: record.json, and what GET /record.json answers, is at
\* every moment one complete collection.
C9_AlwaysComplete ==
  /\ IsDocument(file)
  /\ IsDocument(observed.body)

\* C9, amended: record.json, and what GET /record.json answers, is one
\* complete collection whenever no run has the file open for writing and no
\* write has overlapped another since the file was last truncated by a run
\* writing alone.
C9_CompleteWhenQuiet ==
  /\ ~WriterOpen /\ clean => IsDocument(file)
  /\ observed.quiet => IsDocument(observed.body)

\* C9's case: two runs have both saved and answered, their writes did not
\* overlap, and a reader got the records of the later one
C9_Witness ==
  /\ \A r \in workers : run[r].pc = "responded"
                        /\ run[r].resp.status = "success"
  /\ Cardinality(workers) = 2
  /\ clean
  /\ observed.quiet
  /\ observed.body = file
  /\ Len(file) > 2

====
